---- MODULE Spec2Model ----
(***************************************************************************)
(* Model of the resource cache that PerformanceOptimizer installs around   *)
(* window.fetch (src/js/performance-optimizer.js), of the toast lifecycle  *)
(* of ToastNotificationSystem (src/js/toast-notifications.js) and of the   *)
(* swipe recognition of MobileExperienceEnhancer (src/unnamed/part_000).   *)
(*                                                                         *)
(* Strings that the code searches with String.includes are sequences of    *)
(* one-character strings, so that a substring test is a real search.       *)
(* Times are milliseconds, as returned by Date.now().                      *)
(***************************************************************************)
EXTENDS Integers, Sequences, FiniteSets, TLC

VARIABLES
    now,        \* the value Date.now() returns
    ticks,      \* how many times the clock has advanced
    cache,      \* this.cache: cacheKey -> [response, timestamp, ttl]
    pending,    \* calls suspended at `await originalFetch(url, options)`
    nCalls,     \* how many calls of the wrapped fetch were made so far
    fetchCount, \* how many times originalFetch (the transport) was invoked
    last,       \* the most recently settled call and how it settled
    swept,      \* TRUE iff the latest step was optimizeMemory
    removed,    \* the keys optimizeMemory deleted and no call has stored since
    toasts,     \* this.toasts: the Map toastId -> element, in insertion order
    elements,   \* the toast elements created so far, by order of creation
    timers,     \* the callbacks setTimeout has registered and not yet run
    toastOp,    \* the latest operation on the toast system
    startX,     \* addMobileGestures: the closure variable startX
    startY,     \* addMobileGestures: the closure variable startY
    endX,       \* addMobileGestures: the closure variable endX
    endY,       \* addMobileGestures: the closure variable endY
    isScrolling,    \* this.isScrolling
    touchStartTime, \* this.touchStartTime
    touchStartPos,  \* this.touchStartPos
    touchOp     \* the latest touch event, where it was and what its listener
                \* did: whether it called handleSwipe and what that dispatched

cacheVars == <<cache, pending, nCalls, fetchCount, last, swept, removed>>

toastVars == <<toasts, elements, timers, toastOp>>

gestureVars == <<startX, startY, endX, endY, isScrolling, touchStartTime,
                 touchStartPos, touchOp>>

vars == <<now, ticks, cache, pending, nCalls, fetchCount, last, swept, removed,
          toasts, elements, timers, toastOp,
          startX, startY, endX, endY, isScrolling, touchStartTime,
          touchStartPos, touchOp>>

-----------------------------------------------------------------------------
(* Bounds of the model *)

MaxCalls == 2
MaxTicks == 2

-----------------------------------------------------------------------------
(* Inputs *)

\* 'weather/today.json'
UrlWeatherJson ==
    <<"w","e","a","t","h","e","r","/","t","o","d","a","y",".","j","s","o","n">>
\* 'trail/map.kml'
UrlKml == <<"t","r","a","i","l","/","m","a","p",".","k","m","l">>
\* 'a.jpg'
UrlJpg == <<"a",".","j","p","g">>
\* 'a.jpeg'
UrlJpeg == <<"a",".","j","p","e","g">>
\* 'a.png'
UrlPng == <<"a",".","p","n","g">>
\* 'weather.png'
UrlWeatherPng == <<"w","e","a","t","h","e","r",".","p","n","g">>
\* 's.css'
UrlCss == <<"s",".","c","s","s">>
\* 'home.html'
UrlHtml == <<"h","o","m","e",".","h","t","m","l">>

Urls == {UrlWeatherJson, UrlKml, UrlJpg, UrlJpeg, UrlPng, UrlWeatherPng,
         UrlCss, UrlHtml}

\* Request options: an object is the sequence of its own properties in
\* insertion order, each a <<name, value>> pair.
OptionsSet == { <<>>, << <<"method", "POST">> >> }

\* A property value that refers back to the options object itself.
CircularRef == "[Circular]"

\* The same two properties written in either order, and an object that
\* contains itself.
OptionsAB == << <<"method", "GET">>, <<"cache", "no-store">> >>
OptionsBA == << <<"cache", "no-store">>, <<"method", "GET">> >>
OptionsCircular == << <<"body", CircularRef>> >>

\* Requests for one resource that differ in their options only.
OptionRequests ==
    { <<UrlWeatherJson, <<>> >>, <<UrlWeatherJson, OptionsAB>>,
      <<UrlWeatherJson, OptionsBA>>, <<UrlWeatherJson, OptionsCircular>> }

\* The requests the callers make: resources of three classes with the default
\* options, and one of them with explicit options as well.
Requests ==
    { <<UrlWeatherJson, <<>> >>, <<UrlKml, <<>> >>, <<UrlHtml, <<>> >>,
      <<UrlWeatherJson, << <<"method", "POST">> >> >> }

\* Requests for a resource of every class the code distinguishes.
AllRequests == {<<u, o>> : u \in Urls, o \in OptionsSet}

Statuses == {200, 404}

\* What the transport produces for call c.  Every response and every error is
\* told apart from the others by the call it answers.
Response(c, status) == [status |-> status, body |-> c, gen |-> 0]
NetworkError(c) == [name |-> "TypeError", message |-> "Failed to fetch", call |-> c]

\* What JSON.stringify throws for an object that contains itself.
SerializationError ==
    [name |-> "TypeError", message |-> "Converting circular structure to JSON"]

Minute == 60 * 1000

\* Amounts by which the clock advances between two steps of the program.
Deltas == {1, 10 * Minute - 1, 60 * Minute}

-----------------------------------------------------------------------------
(* Pure functions *)

\* String.prototype.includes
Includes(s, sub) ==
    \E i \in 0..(Len(s) - Len(sub)) : SubSeq(s, i + 1, i + Len(sub)) = sub

RECURSIVE Members(_)
Members(o) ==
    IF o = <<>> THEN <<>>
    ELSE LET p == Head(o)
             m == <<"\"", p[1], "\"", ":", "\"", p[2], "\"">>
         IN IF Len(o) = 1 THEN m ELSE m \o <<",">> \o Members(Tail(o))

\* a serialization failure swallowed instead of thrown
StringifyNeverThrows(o) == FALSE

\* JSON.stringify throws on an object that contains itself
StringifyThrows(o) == \E i \in 1..Len(o) : o[i][2] = CircularRef

\* JSON.stringify of an options object: its properties in insertion order
JSONStringify(o) == <<"{">> \o Members(o) \o <<"}">>

\* `${url}_${JSON.stringify(options)}`
CacheKey(url, options) == url \o <<"_">> \o JSONStringify(options)

cacheableExtensions ==
    << <<".","j","s","o","n">>, <<".","k","m","l">>, <<".","j","p","g">>,
       <<".","j","p","e","g">>, <<".","p","n","g">>, <<".","c","s","s">>,
       <<".","j","s">> >>

Weather == <<"w","e","a","t","h","e","r">>
Api == <<"a","p","i">>

\* `... || 'api'`: a non-empty string on its own is truthy
shouldCacheTruthy(url) ==
    \/ \E i \in 1..Len(cacheableExtensions) : Includes(url, cacheableExtensions[i])
    \/ Includes(url, Weather)
    \/ TRUE

shouldCache(url) ==
    \/ \E i \in 1..Len(cacheableExtensions) : Includes(url, cacheableExtensions[i])
    \/ Includes(url, Weather)
    \/ Includes(url, Api)

getCacheTTL(url) ==
    IF Includes(url, Weather) THEN 10 * 60 * 1000
    ELSE IF Includes(url, <<".","k","m","l">>) THEN 60 * 60 * 1000
    ELSE IF Includes(url, <<".","j","p","g">>) \/ Includes(url, <<".","p","n","g">>)
         THEN 24 * 60 * 60 * 1000
    ELSE 30 * 60 * 1000

\* Response.ok
Ok(response) == response.status \in 200..299

\* the body of the cloned object was already read, so the copy carries no
\* call's body (body 0)
CloneConsumed(response) == [response EXCEPT !.gen = @ + 1, !.body = 0]

\* Response.clone(): another object with the same status and body.  `gen`
\* tells the objects of one lineage apart: 0 is the object the transport
\* returned, each clone is one further.
Clone(response) == [response EXCEPT !.gen = @ + 1]

\* the comparison turned around
isCacheValidReversed(cacheKey) ==
    /\ cacheKey \in DOMAIN cache
    /\ (now - cache[cacheKey].timestamp) > cache[cacheKey].ttl

\* `<=` for `<`
isCacheValidInclusive(cacheKey) ==
    /\ cacheKey \in DOMAIN cache
    /\ (now - cache[cacheKey].timestamp) <= cache[cacheKey].ttl

isCacheValid(cacheKey) ==
    /\ cacheKey \in DOMAIN cache
    /\ (now - cache[cacheKey].timestamp) < cache[cacheKey].ttl

\* an entry that exists is kept
CacheSetIfAbsent(key, entry) ==
    [k \in DOMAIN cache \cup {key} |->
        IF k = key /\ key \notin DOMAIN cache THEN entry ELSE cache[k]]

\* an entry written for a call issued later is kept
CacheSetNewestRequest(key, entry) ==
    [k \in DOMAIN cache \cup {key} |->
        IF k = key /\ (key \notin DOMAIN cache
                       \/ cache[key].response.body < entry.response.body)
        THEN entry ELSE cache[k]]

\* Map.prototype.set
CacheSet(key, entry) ==
    [k \in DOMAIN cache \cup {key} |-> IF k = key THEN entry ELSE cache[k]]

\* an expired entry is dropped when it is looked up
CacheAfterLookupEvicting(cacheKey) ==
    IF cacheKey \in DOMAIN cache
       /\ (now - cache[cacheKey].timestamp) >= cache[cacheKey].ttl
    THEN [k \in DOMAIN cache \ {cacheKey} |-> cache[k]]
    ELSE cache

\* a hit renews the entry's timestamp
CacheAfterLookupTouching(cacheKey) ==
    IF cacheKey \in DOMAIN cache
       /\ (now - cache[cacheKey].timestamp) < cache[cacheKey].ttl
    THEN [cache EXCEPT ![cacheKey].timestamp = now]
    ELSE cache

\* lines 99-102: looking an entry up leaves the map as it is, whether the
\* entry is fresh or expired
CacheAfterLookup(cacheKey) == cache

\* `throw new Error(error.message)`
ThrownWrapped(error) == [name |-> "Error", message |-> error.message]

\* line 124: `throw error` rethrows the caught value itself
Thrown(error) == error

\* `response.ok &&` left out
StorableAnyStatus(response, url) == shouldCache(url)

\* a call joins the transport call already in flight for its key
TransportCallsCoalesced(cacheKey) ==
    IF \E c \in DOMAIN pending : pending[c].cacheKey = cacheKey THEN 0 ELSE 1

\* line 105: every call that is not served as a hit invokes originalFetch
\* once, whatever else is in flight
TransportCalls(cacheKey) == 1

\* line 108: which responses are stored
Storable(response, url) == Ok(response) /\ shouldCache(url)

\* the fallback guarded by the freshness test as well
HasFallbackFresh(cacheKey) ==
    /\ cacheKey \in DOMAIN cache
    /\ (now - cache[cacheKey].timestamp) < cache[cacheKey].ttl

\* line 120: whether a failed call is answered from the cache
HasFallback(cacheKey) == cacheKey \in DOMAIN cache

\* the sweep empties the map
SweepDeletesAll(value) == TRUE

\* line 193: which entries the sweep deletes
SweepDeletes(value) == now - value.timestamp > value.ttl

-----------------------------------------------------------------------------
(* Toast notifications: bounds, inputs and functions *)

\* How many toasts are shown, and how many times a caller (the close button,
\* an action button, other code) calls dismiss or dismissAll.
MaxToasts == 1
MaxDismissals == 1

\* show: `duration = 5000` when the options give none.
DefaultDuration == 5000
\* show: setTimeout(() => toast.classList.add('show'), 10).
AnimationDelay == 10
\* startProgressBar: setTimeout(..., 10).
ProgressDelay == 10
\* dismiss: setTimeout(..., 300).
RemovalDelay == 300

\* The options objects show is called with.  A field that is absent takes its
\* default; handleNetworkError passes persistent without a duration.
ShowOptions ==
    { [type |-> "info"],
      [type |-> "success", duration |-> 200],
      [type |-> "warning", duration |-> 0],
      [type |-> "error", persistent |-> TRUE] }

\* The waits between two things that happen to the toast system.
Waits == {100}

\* Destructuring with a default: `field = value`.
Default(options, field, value) ==
    IF field \in DOMAIN options THEN options[field] ELSE value

\* Date.now() + Math.random().
ToastId(ms, random) == <<ms, random>>

\* An id show has never returned.
UnknownId == ToastId(0, 0)

\* `duration > 0` alone.
AutoDismissPositiveOnly(persistent, duration) == duration > 0

\* `!persistent && duration > 0`: the toast dismisses itself.
AutoDismiss(persistent, duration) == ~persistent /\ duration > 0

\* createToast: the element, not yet attached.  `show` is the class of that
\* name, `progress` the width of the .toast-progress bar ("absent" when the
\* toast has no bar).  persistent, duration and shownAt remember what the
\* toast was shown with and when; dismissed tells whether a caller has called
\* dismiss or dismissAll while the toast was in the map.  Title, message and
\* action buttons are not modelled: pressing a button is a call of dismiss.
createToast(id, type, duration, persistent, shownAt) ==
    [id |-> id, type |-> type, show |-> FALSE, parent |-> FALSE,
     progress |-> IF AutoDismiss(persistent, duration) THEN "unset" ELSE "absent",
     persistent |-> persistent, duration |-> duration, shownAt |-> shownAt,
     dismissed |-> FALSE]

\* Map.has, Map.get, Map.set and Map.delete on a sequence of [id, toast].
MapHas(m, id) == \E i \in 1 .. Len(m) : m[i].id = id

MapGet(m, id) == m[CHOOSE i \in 1 .. Len(m) : m[i].id = id].toast

MapSet(m, id, toast) ==
    IF MapHas(m, id)
    THEN [i \in 1 .. Len(m) |->
            IF m[i].id = id THEN [id |-> id, toast |-> toast] ELSE m[i]]
    ELSE Append(m, [id |-> id, toast |-> toast])

MapDelete(m, id) == SelectSeq(m, LAMBDA e : e.id # id)

\* setTimeout(callback, delay) at time `at`: the queue is kept in the order
\* the callbacks will run, by due time and then by registration.
SetTimeout(q, at, delay, callback, id, toast) ==
    LET t == [due |-> at + delay, callback |-> callback, id |-> id,
              toast |-> toast]
        k == Cardinality({i \in 1 .. Len(q) : q[i].due <= t.due})
    IN SubSeq(q, 1, k) \o <<t>> \o SubSeq(q, k + 1, Len(q))

\* startProgressBar(toast, duration) on the state S at time `at`.
startProgressBar(S, toast, at) ==
    IF S.elements[toast].progress # "absent"
    THEN [S EXCEPT !.elements[toast].progress = "100%",
                   !.timers = SetTimeout(S.timers, at, ProgressDelay,
                                         "shrinkProgress",
                                         S.elements[toast].id, toast)]
    ELSE S

\* dismiss(toastId) on the state S at time `at`; byCaller tells a call from
\* outside from the call show has scheduled.
dismiss(S, toastId, at, byCaller) ==
    IF MapHas(S.toasts, toastId)
    THEN LET toast == MapGet(S.toasts, toastId) IN
         [S EXCEPT !.elements[toast].show = FALSE,
                   !.elements[toast].dismissed = @ \/ byCaller,
                   !.timers = SetTimeout(S.timers, at, RemovalDelay, "remove",
                                         toastId, toast)]
    ELSE S

\* dismissAll: this.toasts.forEach((toast, id) => this.dismiss(id)).
RECURSIVE forEachDismiss(_, _, _)
forEachDismiss(S, entries, at) ==
    IF entries = << >>
    THEN S
    ELSE forEachDismiss(dismiss(S, Head(entries).id, at, TRUE),
                        Tail(entries), at)

\* The callback dismiss registers: it detaches the element if it is attached
\* and deletes the id from the map.
removeToast(S, toastId, toast) ==
    [S EXCEPT !.elements[toast].parent = FALSE,
              !.toasts = MapDelete(S.toasts, toastId)]

\* No toast operation has happened yet.
NoToastOp == [calls |-> 0, op |-> "none", id |-> UnknownId]

-----------------------------------------------------------------------------
(* Swipe gestures: bounds, inputs and functions *)

\* How many touch events the document receives.
MaxTouchEvents == 4

\* A JavaScript number is a one-element sequence; undefined and NaN, which
\* behave alike in the arithmetic and the comparisons below, are empty.
Number(n) == <<n>>

Undefined == << >>

NaN == << >>

IsNumber(v) == v # << >>

\* a - b
Minus(a, b) ==
    IF IsNumber(a) /\ IsNumber(b) THEN Number(a[1] - b[1]) ELSE NaN

\* Math.abs(v)
MathAbs(v) ==
    IF IsNumber(v) THEN Number(IF v[1] < 0 THEN 0 - v[1] ELSE v[1]) ELSE NaN

\* a > b, false when either side is NaN
GreaterThan(a, b) == IsNumber(a) /\ IsNumber(b) /\ a[1] > b[1]

\* clientX and clientY of the touch an event reports.
Coords == {0, 10, 11, 50, 51}

TouchPoints == {[clientX |-> x, clientY |-> y] : x \in Coords, y \in Coords}

\* touchmove: `deltaY > deltaX && deltaY > 10` for the point (x, y) against
\* the start (sx, sy).
IsScrollMove(sx, sy, x, y) ==
    LET deltaX == MathAbs(Minus(Number(x), sx))
        deltaY == MathAbs(Minus(Number(y), sy))
    IN GreaterThan(deltaY, deltaX) /\ GreaterThan(deltaY, Number(10))

\* handleSwipe: const minSwipeDistance = 50.
minSwipeDistance == 50

\* handleSwipe without the comparison of the two distances.
handleSwipeHorizontalOnly(sx, sy, ex, ey) ==
    LET deltaX == Minus(ex, sx)
    IN IF GreaterThan(MathAbs(deltaX), Number(minSwipeDistance))
       THEN IF GreaterThan(deltaX, Number(0)) THEN "right" ELSE "left"
       ELSE "none"

\* handleSwipe(startX, startY, endX, endY): which of handleSwipeRight and
\* handleSwipeLeft it calls, "none" when it calls neither.  What the two do
\* to the navigation menu is not modelled.
handleSwipe(sx, sy, ex, ey) ==
    LET deltaX == Minus(ex, sx)
        deltaY == Minus(ey, sy)
    IN IF /\ GreaterThan(MathAbs(deltaX), MathAbs(deltaY))
          /\ GreaterThan(MathAbs(deltaX), Number(minSwipeDistance))
       THEN IF GreaterThan(deltaX, Number(0)) THEN "right" ELSE "left"
       ELSE "none"

\* No touch event has happened yet.
NoTouchOp == [events |-> 0, type |-> "none", at |-> [clientX |-> 0, clientY |-> 0],
              handleSwipe |-> FALSE, swipe |-> "none"]

-----------------------------------------------------------------------------
(* State *)

\* last.transport is what the transport did for that call: "none" (it was not
\* invoked), "ok" (it returned a response) or "failed" (it threw).
\* last.replaced is the call whose response the call's store replaced, 0 if
\* the call stored nothing or stored under a key that had no entry.
NoCall == [id |-> 0, url |-> <<>>, options |-> <<>>, cacheKey |-> <<>>,
           transport |-> "none", state |-> "none", value |-> "none",
           replaced |-> 0]

Init ==
    /\ now = 0
    /\ ticks = 0
    /\ cache = << >>
    /\ pending = << >>
    /\ nCalls = 0
    /\ fetchCount = 0
    /\ last = NoCall
    /\ swept = FALSE
    /\ removed = {}
    /\ toasts = << >>
    /\ elements = << >>
    /\ timers = << >>
    /\ toastOp = NoToastOp
    /\ startX = Undefined
    /\ startY = Undefined
    /\ endX = Undefined
    /\ endY = Undefined
    /\ isScrolling = FALSE
    /\ touchStartTime = 0
    /\ touchStartPos = [x |-> Number(0), y |-> Number(0)]
    /\ touchOp = NoTouchOp

-----------------------------------------------------------------------------
(* Operations *)

\* window.fetch(url, options) up to its first suspension: a key that cannot
\* be computed rejects the call at once, a cache hit resolves it at once,
\* anything else invokes the transport and waits.
Fetch(url, options) ==
    /\ nCalls < MaxCalls
    /\ nCalls' = nCalls + 1
    /\ IF StringifyThrows(options)
       THEN /\ last' = [id |-> nCalls + 1, url |-> url, options |-> options,
                        cacheKey |-> <<>>, transport |-> "none",
                        state |-> "rejected", value |-> SerializationError,
                        replaced |-> 0]
            /\ UNCHANGED <<pending, fetchCount, cache>>
       ELSE LET cacheKey == CacheKey(url, options) IN
            /\ IF cacheKey \in DOMAIN cache /\ isCacheValid(cacheKey)
               THEN /\ last' = [id |-> nCalls + 1, url |-> url,
                                options |-> options, cacheKey |-> cacheKey,
                                transport |-> "none", state |-> "resolved",
                                value |-> Clone(cache[cacheKey].response),
                                replaced |-> 0]
                    /\ UNCHANGED <<pending, fetchCount>>
               ELSE /\ pending' = [c \in DOMAIN pending \cup {nCalls + 1} |->
                                     IF c = nCalls + 1
                                     THEN [url |-> url, options |-> options,
                                           cacheKey |-> cacheKey,
                                           startedAt |-> now]
                                     ELSE pending[c]]
                    /\ fetchCount' = fetchCount + TransportCalls(cacheKey)
                    /\ UNCHANGED last
            /\ cache' = CacheAfterLookup(cacheKey)
    /\ swept' = FALSE
    /\ UNCHANGED <<now, ticks, removed>>
    /\ UNCHANGED <<toastVars, gestureVars>>

\* The transport resolves with a response: the rest of the try block.
TransportSucceed(c, status) ==
    /\ c \in DOMAIN pending
    /\ LET call == pending[c]
           response == Response(c, status)
           stores == Storable(response, call.url)
       IN /\ cache' = IF stores
                      THEN CacheSet(call.cacheKey,
                                    [response |-> Clone(response),
                                     timestamp |-> now,
                                     ttl |-> getCacheTTL(call.url)])
                      ELSE cache
          /\ last' = [id |-> c, url |-> call.url, options |-> call.options,
                      cacheKey |-> call.cacheKey, transport |-> "ok",
                      state |-> "resolved", value |-> response,
                      replaced |-> IF stores /\ call.cacheKey \in DOMAIN cache
                                   THEN cache[call.cacheKey].response.body
                                   ELSE 0]
          /\ removed' = IF stores THEN removed \ {call.cacheKey} ELSE removed
    /\ pending' = [d \in DOMAIN pending \ {c} |-> pending[d]]
    /\ swept' = FALSE
    /\ UNCHANGED <<now, ticks, nCalls, fetchCount>>
    /\ UNCHANGED <<toastVars, gestureVars>>

\* The transport rejects with an error: the catch block.
TransportFail(c) ==
    /\ c \in DOMAIN pending
    /\ LET call == pending[c]
           error == NetworkError(c)
       IN
       last' = IF HasFallback(call.cacheKey)
               THEN [id |-> c, url |-> call.url, options |-> call.options,
                     cacheKey |-> call.cacheKey,
                     transport |-> "failed", state |-> "resolved",
                     value |-> Clone(cache[call.cacheKey].response),
                     replaced |-> 0]
               ELSE [id |-> c, url |-> call.url, options |-> call.options,
                     cacheKey |-> call.cacheKey,
                     transport |-> "failed", state |-> "rejected",
                     value |-> Thrown(error), replaced |-> 0]
    /\ pending' = [d \in DOMAIN pending \ {c} |-> pending[d]]
    /\ swept' = FALSE
    /\ UNCHANGED <<now, ticks, cache, nCalls, fetchCount, removed>>
    /\ UNCHANGED <<toastVars, gestureVars>>

optimizeMemory ==
    /\ cache' = [k \in {j \in DOMAIN cache : ~SweepDeletes(cache[j])} |-> cache[k]]
    /\ removed' = removed \cup {j \in DOMAIN cache : SweepDeletes(cache[j])}
    /\ swept' = TRUE
    /\ UNCHANGED <<now, ticks, pending, nCalls, fetchCount, last>>
    /\ UNCHANGED <<toastVars, gestureVars>>

\* Time passes.
Advance(d) ==
    /\ ticks < MaxTicks
    /\ ticks' = ticks + 1
    /\ now' = now + d
    /\ swept' = FALSE
    /\ UNCHANGED <<cache, pending, nCalls, fetchCount, last, removed>>
    /\ UNCHANGED <<toastVars, gestureVars>>

Next ==
    \/ \E r \in Requests : Fetch(r[1], r[2])
    \/ \E c \in DOMAIN pending, status \in Statuses : TransportSucceed(c, status)
    \/ \E c \in DOMAIN pending : TransportFail(c)
    \/ optimizeMemory
    \/ \E d \in Deltas : Advance(d)

Spec == Init /\ [][Next]_vars

\* The same program asked for resources of every class.
NextAll ==
    \/ \E r \in AllRequests : Fetch(r[1], r[2])
    \/ \E c \in DOMAIN pending, status \in Statuses : TransportSucceed(c, status)
    \/ \E c \in DOMAIN pending : TransportFail(c)
    \/ optimizeMemory
    \/ \E d \in Deltas : Advance(d)

SpecAll == Init /\ [][NextAll]_vars

\* The same program asked for one resource with differing options.
NextOptions ==
    \/ \E r \in OptionRequests : Fetch(r[1], r[2])
    \/ \E c \in DOMAIN pending, status \in Statuses : TransportSucceed(c, status)
    \/ \E c \in DOMAIN pending : TransportFail(c)
    \/ optimizeMemory
    \/ \E d \in Deltas : Advance(d)

SpecOptions == Init /\ [][NextOptions]_vars

-----------------------------------------------------------------------------
(* Toast notifications: operations *)

\* The toast system's state as one value.
ToastSystem == [toasts |-> toasts, elements |-> elements, timers |-> timers]

\* show(options).  Two toasts are taken never to get the same id: the n-th
\* call of Math.random() returns a value no earlier call has returned, which
\* is written n.
show(options) ==
    /\ Len(elements) < MaxToasts
    /\ LET type == Default(options, "type", "info")
           duration == Default(options, "duration", DefaultDuration)
           persistent == Default(options, "persistent", FALSE)
           toast == Len(elements) + 1
           toastId == ToastId(now, toast)
           created == [ToastSystem EXCEPT
                         !.elements = Append(@, [createToast(toastId, type,
                                                    duration, persistent, now)
                                                 EXCEPT !.parent = TRUE]),
                         !.toasts = MapSet(@, toastId, toast),
                         !.timers = SetTimeout(@, now, AnimationDelay,
                                               "addShowClass", toastId, toast)]
           S == IF AutoDismiss(persistent, duration)
                THEN [startProgressBar(created, toast, now) EXCEPT
                        !.timers = SetTimeout(@, now, duration, "dismiss",
                                              toastId, toast)]
                ELSE created
       IN /\ toasts' = S.toasts
          /\ elements' = S.elements
          /\ timers' = S.timers
          /\ toastOp' = [calls |-> toastOp.calls, op |-> "show", id |-> toastId]
    /\ UNCHANGED <<now, ticks, cacheVars, gestureVars>>

\* A caller (the close button, an action button, other code) calls
\* dismiss(toastId).
CallDismiss(toastId) ==
    /\ toastOp.calls < MaxDismissals
    /\ LET S == dismiss(ToastSystem, toastId, now, TRUE)
       IN /\ toasts' = S.toasts
          /\ elements' = S.elements
          /\ timers' = S.timers
    /\ toastOp' = [calls |-> toastOp.calls + 1, op |-> "dismiss", id |-> toastId]
    /\ UNCHANGED <<now, ticks, cacheVars, gestureVars>>

\* A caller calls dismissAll().
CallDismissAll ==
    /\ toastOp.calls < MaxDismissals
    /\ LET S == forEachDismiss(ToastSystem, toasts, now)
       IN /\ toasts' = S.toasts
          /\ elements' = S.elements
          /\ timers' = S.timers
    /\ toastOp' = [calls |-> toastOp.calls + 1, op |-> "dismissAll",
                   id |-> UnknownId]
    /\ UNCHANGED <<now, ticks, cacheVars, gestureVars>>

\* The event loop runs the callback that is due next, at its due time.
RunTimer ==
    /\ timers # << >>
    /\ LET t == Head(timers)
           at == IF t.due > now THEN t.due ELSE now
           rest == [ToastSystem EXCEPT !.timers = Tail(timers)]
           S == CASE t.callback = "addShowClass" ->
                       [rest EXCEPT !.elements[t.toast].show = TRUE]
                  [] t.callback = "shrinkProgress" ->
                       [rest EXCEPT !.elements[t.toast].progress = "0%"]
                  [] t.callback = "dismiss" ->
                       dismiss(rest, t.id, at, FALSE)
                  [] t.callback = "remove" ->
                       removeToast(rest, t.id, t.toast)
       IN /\ now' = at
          /\ toasts' = S.toasts
          /\ elements' = S.elements
          /\ timers' = S.timers
          /\ toastOp' = [calls |-> toastOp.calls, op |-> t.callback, id |-> t.id]
    /\ UNCHANGED <<ticks, cacheVars, gestureVars>>

\* Time passes, but not beyond the moment the next callback is due.
Wait(d) ==
    /\ IF timers = << >> THEN TRUE ELSE now + d <= Head(timers).due
    /\ Advance(d)

\* The ids show has returned so far.
ReturnedIds == {elements[n].id : n \in 1 .. Len(elements)}

NextToast ==
    \/ \E options \in ShowOptions : show(options)
    \/ \E toastId \in ReturnedIds \cup {UnknownId} : CallDismiss(toastId)
    \/ CallDismissAll
    \/ RunTimer
    \/ \E d \in Waits : Wait(d)

\* The event loop runs every callback that setTimeout has registered.
SpecToastFair == Init /\ [][NextToast]_vars /\ WF_vars(RunTimer)

-----------------------------------------------------------------------------
(* Swipe gestures: operations *)

\* The touchstart listener, for an event whose touches[0] is at p.
TouchStart(p) ==
    /\ touchOp.events < MaxTouchEvents
    /\ startX' = Number(p.clientX)
    /\ startY' = Number(p.clientY)
    /\ touchStartTime' = now
    /\ touchStartPos' = [x |-> Number(p.clientX), y |-> Number(p.clientY)]
    /\ touchOp' = [events |-> touchOp.events + 1, type |-> "touchstart",
                   at |-> p, handleSwipe |-> FALSE, swipe |-> "none"]
    /\ UNCHANGED <<endX, endY, isScrolling>>
    /\ UNCHANGED <<now, ticks, cacheVars, toastVars>>

\* The touchmove listener, for an event whose touches[0] is at p.
TouchMove(p) ==
    /\ touchOp.events < MaxTouchEvents
    /\ isScrolling' = IF ~isScrolling
                      THEN IsScrollMove(startX, startY, p.clientX, p.clientY)
                      ELSE isScrolling
    /\ touchOp' = [events |-> touchOp.events + 1, type |-> "touchmove",
                   at |-> p, handleSwipe |-> FALSE, swipe |-> "none"]
    /\ UNCHANGED <<startX, startY, endX, endY, touchStartTime, touchStartPos>>
    /\ UNCHANGED <<now, ticks, cacheVars, toastVars>>

\* The touchend listener, for an event whose changedTouches[0] is at p.
TouchEnd(p) ==
    /\ touchOp.events < MaxTouchEvents
    /\ IF ~isScrolling
       THEN /\ endX' = Number(p.clientX)
            /\ endY' = Number(p.clientY)
            /\ touchOp' = [events |-> touchOp.events + 1, type |-> "touchend",
                           at |-> p, handleSwipe |-> TRUE,
                           swipe |-> handleSwipe(startX, startY,
                                                 Number(p.clientX),
                                                 Number(p.clientY))]
       ELSE /\ touchOp' = [events |-> touchOp.events + 1, type |-> "touchend",
                           at |-> p, handleSwipe |-> FALSE, swipe |-> "none"]
            /\ UNCHANGED <<endX, endY>>
    /\ isScrolling' = FALSE
    /\ UNCHANGED <<startX, startY, touchStartTime, touchStartPos>>
    /\ UNCHANGED <<now, ticks, cacheVars, toastVars>>

NextGesture ==
    \/ \E p \in TouchPoints : TouchStart(p)
    \/ \E p \in TouchPoints : TouchMove(p)
    \/ \E p \in TouchPoints : TouchEnd(p)

SpecGesture == Init /\ [][NextGesture]_vars

-----------------------------------------------------------------------------
(* Vocabulary of the properties *)

\* Two response objects carry the same status and body.
SameContent(a, b) == a.status = b.status /\ a.body = b.body

\* The entry under key k is fresh: now - storedAt < timeToLive.
Fresh(k) == k \in DOMAIN cache /\ now - cache[k].timestamp < cache[k].ttl

\* The entry under key k is expired: now - storedAt >= timeToLive.
Expired(k) == k \in DOMAIN cache /\ now - cache[k].timestamp >= cache[k].ttl

\* This step is the start of a call of the wrapped fetch.
CallStarts == nCalls' = nCalls + 1

\* The key and the resource of the call that starts in this step.
NewCallKey ==
    IF nCalls' \in DOMAIN pending' THEN pending'[nCalls'].cacheKey ELSE last'.cacheKey
NewCallUrl ==
    IF nCalls' \in DOMAIN pending' THEN pending'[nCalls'].url ELSE last'.url

\* In this step the transport call of the suspended call c ends, by failing
\* or by returning a response.
TransportFails(c) ==
    c \in DOMAIN pending /\ c \notin DOMAIN pending' /\ last'.id = c
                         /\ last'.transport = "failed"
TransportReturns(c) ==
    c \in DOMAIN pending /\ c \notin DOMAIN pending' /\ last'.id = c
                         /\ last'.transport = "ok"

Ext(a, b, c) == <<".", a, b, c>>
ExtJpeg == <<".", "j", "p", "e", "g">>
ExtJson == <<".", "j", "s", "o", "n">>
ExtJs == <<".", "j", "s">>

WeatherMarked(url) == Includes(url, <<"w","e","a","t","h","e","r">>)
ApiMarked(url) == Includes(url, <<"a","p","i">>)
IsKml(url) == Includes(url, Ext("k","m","l"))
IsImage(url) ==
    Includes(url, Ext("j","p","g")) \/ Includes(url, ExtJpeg) \/ Includes(url, Ext("p","n","g"))
HasCacheableExtension(url) ==
    \/ Includes(url, ExtJson) \/ IsKml(url) \/ IsImage(url)
    \/ Includes(url, Ext("c","s","s")) \/ Includes(url, ExtJs)
Cacheable(url) == HasCacheableExtension(url) \/ WeatherMarked(url) \/ ApiMarked(url)

-----------------------------------------------------------------------------
(* C1 *)

\* C1: whenever a call starts while the entry under its key is fresh, the
\* call resolves in that step with a copy of the stored response (same status
\* and body, another object) and the transport is not invoked.
C1_FreshHitSkipsTransport ==
    [][CallStarts /\ Fresh(NewCallKey) =>
        /\ nCalls' \notin DOMAIN pending'
        /\ last'.id = nCalls'
        /\ last'.state = "resolved"
        /\ SameContent(last'.value, cache[NewCallKey].response)
        /\ last'.value # cache[NewCallKey].response
        /\ fetchCount' = fetchCount]_vars

\* A call was served from an entry stored earlier that is still fresh.
C1_Witness ==
    /\ last.transport = "none" /\ last.state = "resolved"
    /\ Fresh(last.cacheKey)
    /\ now > cache[last.cacheKey].timestamp
    /\ SameContent(last.value, cache[last.cacheKey].response)
    /\ fetchCount = 1 /\ nCalls = 2

-----------------------------------------------------------------------------
(* C2 *)

\* C2: whenever the transport call of a suspended call fails while an entry
\* exists under the call's key, fresh or expired, the call resolves with a
\* copy of that entry's response instead of rejecting.
C2_StaleFallbackOnOutage ==
    [][\A c \in DOMAIN pending :
         TransportFails(c) /\ pending[c].cacheKey \in DOMAIN cache =>
            /\ last'.state = "resolved"
            /\ SameContent(last'.value, cache[pending[c].cacheKey].response)]_vars

\* The transport failed for 'trail/map.kml' and the call was answered from
\* the entry stored two hours earlier with a 60-minute time to live.
C2_Witness ==
    /\ last.transport = "failed" /\ last.state = "resolved"
    /\ last.url = UrlKml
    /\ last.cacheKey \in DOMAIN cache
    /\ cache[last.cacheKey].ttl = 60 * Minute
    /\ now - cache[last.cacheKey].timestamp = 120 * Minute
    /\ SameContent(last.value, cache[last.cacheKey].response)

-----------------------------------------------------------------------------
(* C3 *)

\* C3: whenever the transport call of a suspended call fails while no entry
\* exists under the call's key, the call rejects with the very error the
\* transport produced and the cache is left as it was.
C3_NoEntryNoFallback ==
    [][\A c \in DOMAIN pending :
         TransportFails(c) /\ pending[c].cacheKey \notin DOMAIN cache =>
            /\ last'.state = "rejected"
            /\ last'.value = NetworkError(c)
            /\ cache' = cache]_vars

\* A call was rejected with the transport's error while the cache held
\* entries for other keys only.
C3_Witness ==
    /\ last.transport = "failed" /\ last.state = "rejected"
    /\ last.value = NetworkError(last.id)
    /\ last.cacheKey \notin DOMAIN cache
    /\ cache # << >>

-----------------------------------------------------------------------------
(* C4 *)

\* C4: a call that starts while an entry exists under its key is served as a
\* hit exactly when now - storedAt < timeToLive; when now - storedAt >=
\* timeToLive, equality included, the call invokes the transport once and
\* is suspended on it.
C4_ExpiryTriggersRefetch ==
    [][CallStarts /\ NewCallKey \in DOMAIN cache =>
        /\ Expired(NewCallKey) =>
              /\ fetchCount' = fetchCount + 1
              /\ nCalls' \in DOMAIN pending'
              /\ last' = last
        /\ (fetchCount' = fetchCount) <=> Fresh(NewCallKey)]_vars

\* A call went to the transport at the instant the age of the entry under
\* its key equalled the time to live.
C4_Witness ==
    \E c \in DOMAIN pending :
        /\ pending[c].cacheKey \in DOMAIN cache
        /\ pending[c].startedAt = now
        /\ cache[pending[c].cacheKey].timestamp < now
        /\ now - cache[pending[c].cacheKey].timestamp = cache[pending[c].cacheKey].ttl

-----------------------------------------------------------------------------
(* C5 *)

\* C5 as stated: whenever the transport returns a response for a cacheable
\* resource, whatever its status, the response is stored under the call's
\* key with the current time.
C5_AnyStatusIsStored ==
    [][\A c \in DOMAIN pending :
         TransportReturns(c) /\ Cacheable(pending[c].url) =>
            /\ pending[c].cacheKey \in DOMAIN cache'
            /\ SameContent(cache'[pending[c].cacheKey].response, last'.value)
            /\ cache'[pending[c].cacheKey].timestamp = now]_vars

\* C5 amended: whenever the transport returns a response for a cacheable
\* resource, the response is stored under the call's key with the current
\* time if its status is in 200..299, and the cache is left as it was if
\* the status is anything else; the caller gets the live response either way.
C5_OnlyOkIsStored ==
    [][\A c \in DOMAIN pending :
         TransportReturns(c) /\ Cacheable(pending[c].url) =>
            /\ last'.state = "resolved"
            /\ IF last'.value.status \in 200..299
               THEN /\ pending[c].cacheKey \in DOMAIN cache'
                    /\ SameContent(cache'[pending[c].cacheKey].response, last'.value)
                    /\ cache'[pending[c].cacheKey].timestamp = now
               ELSE cache' = cache]_vars

\* The transport returned 404 for a cacheable resource and nothing is stored
\* under the call's key.
C5_Witness ==
    /\ last.transport = "ok" /\ last.state = "resolved"
    /\ last.value.status = 404
    /\ Cacheable(last.url)
    /\ last.cacheKey \notin DOMAIN cache

-----------------------------------------------------------------------------
(* C6 *)

\* C6: no entry is ever stored under the key of a resource that carries no
\* cacheable extension and neither marker, and every call for such a
\* resource invokes the transport.
C6_NonCacheableNeverCached ==
    /\ [](\A r \in AllRequests :
            ~Cacheable(r[1]) => CacheKey(r[1], r[2]) \notin DOMAIN cache)
    /\ [][CallStarts /\ ~Cacheable(NewCallUrl) =>
            /\ fetchCount' = fetchCount + 1
            /\ nCalls' \in DOMAIN pending']_vars

\* 'home.html' was fetched with status 200, a second call for it is on its
\* way to the transport, and nothing is stored.
C6_Witness ==
    /\ last.url = UrlHtml /\ last.transport = "ok" /\ last.value.status = 200
    /\ last.id = 1
    /\ 2 \in DOMAIN pending /\ pending[2].url = UrlHtml
    /\ fetchCount = 2
    /\ cache = << >>

-----------------------------------------------------------------------------
(* C7 *)

TenMinutes == 10 * Minute
SixtyMinutes == 60 * Minute
ThirtyMinutes == 30 * Minute
TwentyFourHours == 24 * 60 * Minute

\* The time to live the classification assigns, first match first.
ClassTTL(url) ==
    IF WeatherMarked(url) THEN TenMinutes
    ELSE IF IsKml(url) THEN SixtyMinutes
    ELSE IF IsImage(url) THEN TwentyFourHours
    ELSE ThirtyMinutes

\* C7: every stored entry's time to live is 10 minutes if the resource is
\* weather-marked, else 60 minutes if it is .kml, else 24 hours if it is an
\* image, else 30 minutes.
C7_TTLClassification ==
    \A r \in AllRequests :
        CacheKey(r[1], r[2]) \in DOMAIN cache =>
            cache[CacheKey(r[1], r[2])].ttl = ClassTTL(r[1])

-----------------------------------------------------------------------------
(* C8 *)

\* C8: every stored entry of a resource that carries .jpg, .jpeg or .png and
\* is neither weather-marked nor .kml has a time to live of 24 hours.
C8_EveryImageExtensionGetsImageTTL ==
    \A r \in AllRequests :
        /\ CacheKey(r[1], r[2]) \in DOMAIN cache
        /\ IsImage(r[1]) /\ ~WeatherMarked(r[1]) /\ ~IsKml(r[1])
        => cache[CacheKey(r[1], r[2])].ttl = TwentyFourHours

-----------------------------------------------------------------------------
(* C9 *)

\* C9: a run of the sweep deletes every entry with now - storedAt >=
\* timeToLive, equality included, and leaves every entry with
\* now - storedAt < timeToLive in place and as it was.
C9_SweepRemovesExactlyStale ==
    [][swept' =>
        \A k \in DOMAIN cache :
            IF now - cache[k].timestamp >= cache[k].ttl
            THEN k \notin DOMAIN cache'
            ELSE k \in DOMAIN cache' /\ cache'[k] = cache[k]]_vars

-----------------------------------------------------------------------------
(* C10 *)

\* C10: a step that is not a run of the sweep removes no key from the
\* cache, whether it starts a call or settles one, however the call ends.
C10_ReadsNeverRemove ==
    [][swept' \/ DOMAIN cache \subseteq DOMAIN cache']_vars

\* A call for a key whose entry had expired went to the transport, got a
\* 404, and the expired entry is still there.
C10_Witness ==
    /\ last.transport = "ok" /\ last.value.status = 404
    /\ Expired(last.cacheKey)
    /\ ~swept

-----------------------------------------------------------------------------
(* C11 *)

\* The options of the call that starts in this step.
NewCallOptions ==
    IF nCalls' \in DOMAIN pending' THEN pending'[nCalls'].options ELSE last'.options

\* Two options objects hold the same properties with the same values.
SameFields(o1, o2) ==
    /\ Len(o1) = Len(o2)
    /\ {o1[i] : i \in 1..Len(o1)} = {o2[i] : i \in 1..Len(o2)}

\* C11: a call never goes to the transport while a fresh entry exists that
\* was stored for the same resource with options holding the same properties
\* and values, in whatever order they were written.
C11_KeyIgnoresFieldOrder ==
    [][CallStarts /\ nCalls' \in DOMAIN pending' =>
        ~ \E r \in OptionRequests :
            /\ r[1] = NewCallUrl
            /\ ~StringifyThrows(r[2])
            /\ SameFields(r[2], NewCallOptions)
            /\ Fresh(CacheKey(r[1], r[2]))]_vars

-----------------------------------------------------------------------------
(* C12 *)

\* C12: a call whose options cannot be serialized is rejected in the step
\* that starts it with the serialization error, invokes no transport, is not
\* suspended, and leaves the cache as it was, whatever the cache holds.
C12_UnserializableFailsEarly ==
    [][CallStarts /\ (\E i \in 1..Len(NewCallOptions) :
                         NewCallOptions[i][2] = CircularRef) =>
        /\ last'.id = nCalls'
        /\ last'.state = "rejected"
        /\ last'.value = SerializationError
        /\ last'.transport = "none"
        /\ fetchCount' = fetchCount
        /\ pending' = pending
        /\ cache' = cache]_vars

\* A call with circular options was rejected while the cache held an entry
\* for the same resource.
C12_Witness ==
    /\ last.state = "rejected" /\ last.value = SerializationError
    /\ last.options = OptionsCircular
    /\ CacheKey(last.url, <<>>) \in DOMAIN cache
    /\ fetchCount = 1 /\ nCalls = 2

-----------------------------------------------------------------------------
(* C13 *)

\* This step settles a call (resolves or rejects it).
Settles == last'.id # last.id

\* C13: a call with serializable options that settles is rejected exactly
\* when its transport call failed and no entry existed under its key at
\* that moment; in every other case (fresh hit, transport success, transport
\* failure with an entry present) it resolves with a response.
C13_RejectsOnlyWithoutData ==
    [][Settles /\ (\A i \in 1..Len(last'.options) :
                      last'.options[i][2] # CircularRef) =>
        /\ last'.state \in {"resolved", "rejected"}
        /\ last'.state = "rejected" <=>
              (last'.transport = "failed" /\ last'.cacheKey \notin DOMAIN cache)
        /\ last'.state = "resolved" => last'.value.status \in Statuses]_vars

\* The transport failed for a call whose key had a fresh entry, stored by
\* another call while this one was in flight, and the call resolved.
C13_Witness ==
    /\ last.transport = "failed" /\ last.state = "resolved"
    /\ Fresh(last.cacheKey)
    /\ last.id = 1 /\ cache[last.cacheKey].response.body = 2

-----------------------------------------------------------------------------
(* C14 *)

\* C14 as stated: whenever the transport returns a response for a cacheable
\* resource, the cache then holds under the call's key that response, the
\* current time and the time to live of the resource, every other entry is
\* as it was, and the caller gets the live response.
C14_SuccessStoresEntry ==
    [][\A c \in DOMAIN pending :
         TransportReturns(c) /\ Cacheable(pending[c].url) =>
            LET k == pending[c].cacheKey IN
            /\ k \in DOMAIN cache'
            /\ SameContent(cache'[k].response, last'.value)
            /\ cache'[k].timestamp = now
            /\ cache'[k].ttl = getCacheTTL(pending[c].url)
            /\ \A j \in DOMAIN cache \ {k} : j \in DOMAIN cache' /\ cache'[j] = cache[j]
            /\ last'.state = "resolved"
            /\ last'.value = Response(c, last'.value.status)]_vars

\* C14 amended: the same for a response whose status is in 200..299,
\* whether or not an entry existed under the key before.
C14_OkResponseOverwritesEntry ==
    [][\A c \in DOMAIN pending :
         TransportReturns(c) /\ Cacheable(pending[c].url)
         /\ last'.value.status \in 200..299 =>
            LET k == pending[c].cacheKey IN
            /\ k \in DOMAIN cache'
            /\ DOMAIN cache' = DOMAIN cache \cup {k}
            /\ SameContent(cache'[k].response, last'.value)
            /\ cache'[k].timestamp = now
            /\ cache'[k].ttl = getCacheTTL(pending[c].url)
            /\ \A j \in DOMAIN cache \ {k} : cache'[j] = cache[j]
            /\ last'.state = "resolved"
            /\ last'.value = Response(c, last'.value.status)]_vars

\* The second call's response has just replaced the expired entry the first
\* call had stored under the same key.
C14_Witness ==
    /\ last.id = 2 /\ last.replaced = 1
    /\ last.cacheKey \in DOMAIN cache
    /\ cache[last.cacheKey].response.body = 2
    /\ cache[last.cacheKey].timestamp = now
    /\ now >= cache[last.cacheKey].ttl

-----------------------------------------------------------------------------
(* C15 *)

\* C15: every entry that appears or changes in the cache holds the response
\* the transport has just returned to a call for that key; every call that
\* resolves gets either the response its own transport call returned or the
\* content of the entry under its key; and the transport is invoked only
\* when a call starts, at most once for it.
C15_NoSynthesisNoRetry ==
    [][/\ \A k \in DOMAIN cache' :
            \/ k \in DOMAIN cache /\ cache'[k] = cache[k]
            \/ \E c \in DOMAIN pending :
                  /\ TransportReturns(c)
                  /\ pending[c].cacheKey = k
                  /\ last'.value = Response(c, last'.value.status)
                  /\ SameContent(cache'[k].response, last'.value)
       /\ Settles /\ last'.state = "resolved" =>
            IF last'.transport = "ok"
            THEN last'.value = Response(last'.id, last'.value.status)
            ELSE /\ last'.cacheKey \in DOMAIN cache
                 /\ SameContent(last'.value, cache[last'.cacheKey].response)
       /\ fetchCount' # fetchCount =>
            CallStarts /\ fetchCount' = fetchCount + 1]_vars

\* The second call's transport failed and the call resolved with the
\* response the transport had returned to the first call.
C15_Witness ==
    /\ last.id = 2 /\ last.transport = "failed" /\ last.state = "resolved"
    /\ last.value.body = 1
    /\ fetchCount = 2

-----------------------------------------------------------------------------
(* C16 *)

-----------------------------------------------------------------------------
(* C17 *)

\* The fresh entries of the cache.
FreshView == [k \in {j \in DOMAIN cache : Fresh(j)} |-> cache[k]]

\* C17: a run of the sweep leaves the fresh entries as they are; whether a
\* call is served as a hit, and with what, is decided by the fresh entries
\* alone; and an entry is among the fresh ones only as it was before or by
\* being stored in that step.  So runs that differ in their sweeps only
\* serve the same hits.
C17_SweepKeepsHitAndMiss ==
    [][/\ swept' => FreshView' = FreshView
       /\ CallStarts =>
            /\ (nCalls' \notin DOMAIN pending') <=> (NewCallKey \in DOMAIN FreshView)
            /\ (nCalls' \notin DOMAIN pending') <=> (fetchCount' = fetchCount)
            /\ nCalls' \notin DOMAIN pending' =>
                  SameContent(last'.value, FreshView[NewCallKey].response)
       /\ \A k \in DOMAIN FreshView' :
            \/ k \in DOMAIN FreshView /\ FreshView'[k] = FreshView[k]
            \/ \E c \in DOMAIN pending :
                  TransportReturns(c) /\ pending[c].cacheKey = k]_vars

\* The sweep has just removed an expired entry and kept a fresh one.
C17_Witness ==
    /\ swept
    /\ removed # {}
    /\ \E k \in DOMAIN cache : Fresh(k)

-----------------------------------------------------------------------------
(* C18 *)

\* C18: the cache changes only in a run of the sweep or in a step in which
\* the transport returns a response with a status in 200..299 for a
\* cacheable resource; a hit, a stale fallback, a propagated failure and a
\* response that is not stored leave every entry as it was.
C18_CacheChangesOnlyOnStoreOrSweep ==
    [][cache' # cache =>
        \/ swept'
        \/ \E c \in DOMAIN pending :
              /\ TransportReturns(c)
              /\ last'.value.status \in 200..299
              /\ Cacheable(pending[c].url)]_vars

\* The second call was answered from the expired entry the first call had
\* stored at time 0, and the entry still carries that time.
C18_Witness ==
    /\ last.id = 2 /\ last.transport = "failed" /\ last.state = "resolved"
    /\ last.url = UrlWeatherJson
    /\ Expired(last.cacheKey)
    /\ cache[last.cacheKey].timestamp = 0
    /\ cache[last.cacheKey].response.body = 1

-----------------------------------------------------------------------------
(* C19 *)

-----------------------------------------------------------------------------
(* C20 *)

\* C20: a key the sweep has removed is absent from the cache until a call
\* stores under it again, and a call for such a key whose transport fails is
\* rejected with the transport's error.
C20_FallbackLostAfterSweep ==
    /\ [](removed \cap DOMAIN cache = {})
    /\ [][/\ swept' => \A k \in DOMAIN cache :
                          k \notin DOMAIN cache' => k \in removed'
          /\ \A c \in DOMAIN pending :
                TransportFails(c) /\ pending[c].cacheKey \in removed =>
                   /\ last'.state = "rejected"
                   /\ last'.value = NetworkError(c)]_vars

\* The first call's entry was swept and the second call, for the same key,
\* was rejected when its transport failed.
C20_Witness ==
    /\ last.id = 2 /\ last.transport = "failed" /\ last.state = "rejected"
    /\ last.cacheKey \in removed
    /\ fetchCount = 2

-----------------------------------------------------------------------------
(* C21 *)

\* Toast n is in the toasts map: its id is a key and the key holds it.
InMap(n) ==
    /\ n <= Len(elements)
    /\ MapHas(toasts, elements[n].id)
    /\ MapGet(toasts, elements[n].id) = n

\* Toast n was shown with persistent = false and duration > 0.
SelfDismissing(n) == elements[n].persistent = FALSE /\ elements[n].duration > 0

\* This step is a caller's call dismiss(id).
CallerDismisses(id) ==
    /\ toastOp'.calls = toastOp.calls + 1
    /\ toastOp'.op = "dismiss"
    /\ toastOp'.id = id

\* This step is the call dismiss(id) that show has scheduled.
TimerDismisses(id) ==
    /\ timers # << >>
    /\ Head(timers).callback = "dismiss" /\ Head(timers).id = id
    /\ toastOp'.op = "dismiss" /\ toastOp'.calls = toastOp.calls
    /\ ticks' = ticks

\* C21: a toast shown with persistent = false and duration > 0 eventually
\* leaves the toasts map with no call from outside, and if no caller has
\* dismissed it it leaves exactly duration + 300 ms after it was shown; a
\* toast shown with persistent = true or duration <= 0 leaves the map only
\* after a caller has called dismiss or dismissAll for it; and dismiss of an
\* id that is not in the map changes neither the map, nor an element, nor
\* the callbacks that are registered.
C21_ToastLifecycle ==
    /\ \A n \in 1 .. MaxToasts :
          (InMap(n) /\ SelfDismissing(n)) ~> ~InMap(n)
    /\ [](\A n \in 1 .. Len(elements) :
            InMap(n) /\ SelfDismissing(n) =>
               now <= elements[n].shownAt + elements[n].duration + 300)
    /\ [][\A n \in 1 .. Len(elements) :
            InMap(n) /\ ~InMap(n)' =>
               IF SelfDismissing(n)
               THEN elements[n].dismissed
                    \/ now' = elements[n].shownAt + elements[n].duration + 300
               ELSE elements[n].dismissed]_vars
    /\ [][\A id \in ReturnedIds \cup {UnknownId} :
            ~MapHas(toasts, id) =>
               /\ CallerDismisses(id) => UNCHANGED <<toasts, elements, timers>>
               /\ TimerDismisses(id) =>
                     UNCHANGED <<toasts, elements>> /\ timers' = Tail(timers)]_vars

\* A toast shown with the default duration left the map 5300 ms later with
\* no call from outside, and a caller has then dismissed its id, which
\* changed nothing.
C21_Witness ==
    /\ Len(elements) = 1 /\ SelfDismissing(1) /\ ~InMap(1)
    /\ ~elements[1].dismissed /\ ~elements[1].parent
    /\ now = elements[1].shownAt + 5300
    /\ toastOp.op = "dismiss" /\ toastOp.calls = 1
    /\ toastOp.id = elements[1].id
    /\ timers = << >>

-----------------------------------------------------------------------------
(* C22 *)

\* This step is the listener of one touch event of the given type.
TouchEvent(type) ==
    touchOp'.events = touchOp.events + 1 /\ touchOp'.type = type

\* The distance between two coordinates.
Distance(a, b) == IF a > b THEN a - b ELSE b - a

\* The touch began at a known point, and from there to the point of this
\* step's event the horizontal and the vertical distance are these.
StartKnown == startX # << >> /\ startY # << >>

Horizontal == Distance(touchOp'.at.clientX, startX[1])

Vertical == Distance(touchOp'.at.clientY, startY[1])

\* C22: a touchmove whose vertical distance from the start exceeds the
\* horizontal one and 10 marks the touch as scrolling, and so does no other
\* touchmove; the mark stays until the next touchend; a touchend of a touch
\* marked as scrolling does not call handleSwipe and dispatches no swipe;
\* every touchend leaves isScrolling false, so the touch that follows a
\* touchend starts unmarked; and a touchend of an unmarked touch dispatches a
\* swipe only when the horizontal distance exceeds the vertical one and 50,
\* to the right when the touch moved right and to the left otherwise.
C22_ScrollNeverSwipes ==
    /\ [][TouchEvent("touchmove") /\ ~isScrolling =>
            (isScrolling' <=>
               StartKnown /\ Vertical > Horizontal /\ Vertical > 10)]_vars
    /\ [][isScrolling /\ ~TouchEvent("touchend") => isScrolling']_vars
    /\ [][TouchEvent("touchend") /\ isScrolling =>
            ~touchOp'.handleSwipe /\ touchOp'.swipe = "none"]_vars
    /\ [][TouchEvent("touchend") => ~isScrolling']_vars
    /\ [](touchOp.type = "touchend" => ~isScrolling)
    /\ [][TouchEvent("touchend") /\ ~isScrolling =>
            /\ touchOp'.handleSwipe
            /\ touchOp'.swipe # "none" =>
                  /\ StartKnown
                  /\ Horizontal > Vertical /\ Horizontal > 50
                  /\ touchOp'.swipe = "right" <=>
                        touchOp'.at.clientX > startX[1]]_vars

\* A touch that began at (0, 0) was marked as scrolling and ended at
\* (51, 0), where an unmarked touch would have been a swipe to the right:
\* handleSwipe was not called and isScrolling is false again.
C22_Witness ==
    /\ touchOp.type = "touchend" /\ touchOp.events = 3
    /\ ~touchOp.handleSwipe /\ touchOp.swipe = "none"
    /\ ~isScrolling
    /\ handleSwipe(startX, startY, Number(touchOp.at.clientX),
                   Number(touchOp.at.clientY)) = "right"

====
